---- MODULE Spec2Model ----
(***************************************************************************)
(* Model of the 100x-voicebot serverless handlers: the three versions of   *)
(* the chat handler (api/chat.js on the Hugging Face router, and the two   *)
(* Gemini versions), the two versions of the speech handler, and the       *)
(* speech-text sanitizer.  One process runs one handler module (a          *)
(* serverless function); Init picks the module, its environment and the    *)
(* contents of kb_vectors.json.                                            *)
(*                                                                         *)
(* Text is modelled as TLA+ strings, character by character (SubSeq, Len,  *)
(* \o).  A TLA+ string cannot hold a backtick, so the backtick character   *)
(* is written "~" throughout (BT); no modelled text uses "~" otherwise.    *)
(*                                                                         *)
(* JavaScript values are tagged records [t |-> type, v |-> value].         *)
(***************************************************************************)
EXTENDS Integers, Sequences, FiniteSets, TLC

VARIABLES
  handler,    \* the handler module this process runs
  env,        \* process.env: name -> value, "" when unset
  kbFile,     \* kb_vectors.json as the process finds it
  KB_CACHE,   \* the module variable KB_CACHE
  pc,         \* pc[r]: where the handling of request r stands
  req,        \* req[r]: the request, [method, body]
  res,        \* res[r]: the response sent to request r
  nres,       \* nres[r]: the number of responses sent to request r
  trace,      \* trace[r]: what the handling of r has done so far
  reply,      \* reply[r]: what the upstream endpoint answered
  generated,  \* generated[r]: the text the model generated
  call,       \* call[r]: the upstream call made for r
  sanPc,      \* the sanitizer run on its own: passes done
  sanText,    \* its input
  sanOnce,    \* the output of the first pass
  sanTwice,   \* the output of the second pass
  modelText,  \* the parser run on its own: the text the model generated
  parseRes,   \* the response the parser makes of it
  buildCtx,        \* buildContext run on its own: its arguments and its result
  load,       \* loadKB run on its own: the calls made of it
  ui          \* the page: chat, status, errorMsg, and the calls of sendToServer

vars ==
  <<handler, env, kbFile, KB_CACHE, pc, req, res, nres, trace, reply, generated, call,
    sanPc, sanText, sanOnce, sanTwice, modelText, parseRes, buildCtx, load, ui>>

\* The state of the request handling, and that of the functions run alone.
serverVars ==
  <<handler, env, kbFile, KB_CACHE, pc, req, res, nres, trace, reply, generated, call>>
aloneVars == <<sanPc, sanText, sanOnce, sanTwice, modelText, parseRes, buildCtx, load, ui>>

(* ---------------------------------------------------------------- bounds *)

\* Number of request slots (requests that can be in flight at once).
MaxReqs == 1
\* Largest number of pieces a sanitizer input is concatenated from.
MaxPieces == 3
\* Number of callers of loadKB that can be awaiting it at once.
MaxLoaders == 2
\* Number of calls of sendToServer the page makes.
MaxCalls == 3

(* ------------------------------------------------------ program constants *)

\* answer.slice(0, 2000)
MaxAnswerLen == 2000
\* tok.length > 2
MinTokLen == 2

(* --------------------------------------------------------------- strings *)

BT == "~"

Char(s, i) == SubSeq(s, i, i)

Min(a, b) == IF a < b THEN a ELSE b

\* String.prototype.includes
Includes(s, sub) ==
  \E i \in 1..(Len(s) - Len(sub) + 1) : SubSeq(s, i, i + Len(sub) - 1) = sub

\* Index of the first occurrence of sub in s, 0 when there is none.
IndexOf(s, sub) ==
  LET hits == {i \in 1..(Len(s) - Len(sub) + 1) : SubSeq(s, i, i + Len(sub) - 1) = sub}
  IN  IF hits = {} THEN 0 ELSE CHOOSE i \in hits : \A j \in hits : i <= j

\* Index of the last occurrence of the character c in s, 0 when there is none.
LastIndexOf(s, c) ==
  LET hits == {i \in 1..Len(s) : Char(s, i) = c}
  IN  IF hits = {} THEN 0 ELSE CHOOSE i \in hits : \A j \in hits : i >= j

UpperChars == "ABCDEFGHIJKLMNOPQRSTUVWXYZ"
LowerChars == "abcdefghijklmnopqrstuvwxyz"
DigitChars == "0123456789"

\* String.prototype.toLowerCase
RECURSIVE ToLowerCase(_)
ToLowerCase(s) ==
  IF Len(s) = 0 THEN ""
  ELSE IF Len(s) = 1
  THEN IF Includes(UpperChars, s) THEN Char(LowerChars, IndexOf(UpperChars, s)) ELSE s
  ELSE ToLowerCase(SubSeq(s, 1, Len(s) \div 2)) \o
       ToLowerCase(SubSeq(s, Len(s) \div 2 + 1, Len(s)))

IsSpace(c) == c \in {" ", "\n", "\t", "\r"}

\* String.prototype.trim
RECURSIVE TrimStart(_)
TrimStart(s) ==
  IF Len(s) > 0 /\ IsSpace(Char(s, 1)) THEN TrimStart(SubSeq(s, 2, Len(s))) ELSE s
RECURSIVE TrimEnd(_)
TrimEnd(s) ==
  IF Len(s) > 0 /\ IsSpace(Char(s, Len(s))) THEN TrimEnd(SubSeq(s, 1, Len(s) - 1)) ELSE s
Trim(s) == TrimEnd(TrimStart(s))

\* Slice0 were nothing cut.
Slice0Whole(s, n) == s

\* String.prototype.slice(0, n)
Slice0(s, n) == SubSeq(s, 1, Min(Len(s), n))

\* String.prototype.replace(/pat/g, rep) for a literal pattern: leftmost
\* occurrences, not overlapping, the scan going on after each replacement.
RECURSIVE ReplaceAll(_, _, _)
ReplaceAll(s, pat, rep) ==
  LET k == IndexOf(s, pat)
  IN  IF k = 0 THEN s
      ELSE SubSeq(s, 1, k - 1) \o rep \o
           ReplaceAll(SubSeq(s, k + Len(pat), Len(s)), pat, rep)


\* The maximal runs of the positions W within s: each run starts at a
\* position of W whose predecessor is not in W, and ends at the first
\* position from there on whose successor is not in W.
Runs(s, W) ==
  {SubSeq(s, i, CHOOSE j \in W : /\ j >= i /\ j + 1 \notin W
                                 /\ \A k \in W : (k >= i /\ k + 1 \notin W) => j <= k) :
     i \in {k \in W : k - 1 \notin W}}

\* q.split(/\W+/).filter(Boolean), as a set (the code wraps it in new Set):
\* the maximal runs of word characters of s.
Tokens(s) ==
  Runs(s, {k \in 1..Len(s) :
             \/ Char(s, k) = "_"
             \/ \E a \in {LowerChars, UpperChars, DigitChars} : Includes(a, Char(s, k))})

\* n copies of s.
RECURSIVE Repeat(_, _)
Repeat(s, n) ==
  IF n = 0 THEN ""
  ELSE IF n % 2 = 0 THEN LET h == Repeat(s, n \div 2) IN h \o h
  ELSE s \o Repeat(s, n - 1)

(* ------------------------------------------------------ JavaScript values *)

Undef == [t |-> "undefined", v |-> 0]
Str(s) == [t |-> "string", v |-> s]
Num(n) == [t |-> "number", v |-> n]
Arr(a) == [t |-> "array", v |-> a]
Obj(o) == [t |-> "object", v |-> o]

\* JavaScript truthiness.
Truthy(jv) ==
  CASE jv.t = "undefined" -> FALSE
    [] jv.t = "null" -> FALSE
    [] jv.t = "string" -> jv.v # ""
    [] jv.t = "number" -> jv.v # 0
    [] OTHER -> TRUE

\* Decimal digits of a natural number.
RECURSIVE Digits(_)
Digits(n) ==
  IF n < 10 THEN Char(DigitChars, n + 1)
  ELSE Digits(n \div 10) \o Char(DigitChars, (n % 10) + 1)

(* -------------------------------------------------------- knowledge base *)

\* The handler modules.
ChatHandlers == {"hf", "gemini1", "gemini2"}
TtsHandlers == {"tts1", "tts2"}

\* The inline knowledge base of api/chat.js and of the first Gemini version.
InlineKB ==
  <<[id |-> "KB_LIFE",
      text |-> "I am a fourth-year engineering student from Bengaluru who blends design and code."],
    [id |-> "KB_SUPERPOWER",
      text |-> "Superpower: creative problem-solving; combines design thinking with code to ship prototypes fast."],
    [id |-> "KB_GROW",
      text |-> "Wants to grow in backend systems & deployments, advanced ML/LLM tooling and RAG, and system design."],
    [id |-> "KB_SKILLS",
      text |-> "Skills: HTML, CSS, JavaScript, React, Node.js; Figma and UI/UX design interest."],
    [id |-> "KB_TRAITS",
      text |-> "I am creative, a fast learner, and enjoy working in groups."],
    [id |-> "KB_AI",
      text |-> "I have been dabbling in AI/ML because it is interesting and opens new ways to build helpful tools."]>>

\* The inline knowledge base of the second Gemini version.
InlineKBFull ==
  <<[id |-> "KB_LIFE",
      text |-> "I am Nitya, a fourth-year engineering student from Bengaluru with a creative mindset; I build frontends and explore AI/ML."],
    [id |-> "KB_EDU",
      text |-> "Education: B.E. in Computer Science; coursework includes data structures, networks, and fundamentals of machine learning."],
    [id |-> "KB_SKILLS",
      text |-> "Skills: HTML, CSS, JavaScript, React, Node.js, Tailwind, Figma, GSAP, Electron, and beginner Python for ML."],
    [id |-> "KB_ARCHITECTURE",
      text |-> "Architecture: React + Vite frontend, Vercel serverless backend, Gemini Pro for intelligence, in-memory RAG over the Nitya KB, and ElevenLabs for voice output."],
    [id |-> "KB_PROJECT_OVABLOOM",
      text |-> "OvaBloom: frontend contributor. A PCOS companion app with explainable ML risk assessment, privacy-first local storage, and lifestyle tips."],
    [id |-> "KB_PROJECT_RAINSAFE",
      text |-> "RainSafe: hyperlocal flood alert prototype using environmental data and ML risk scoring; integrates map APIs and sends alerts to at-risk users."],
    [id |-> "KB_PROJECT_GAME",
      text |-> "Magical ball game: Toy Story-inspired exploration + stealth mechanics where different sports balls have unique behaviours and hiding spots."],
    [id |-> "KB_PROJECT_VOICENARY",
      text |-> "Voicenary: AI Voice Chat Application connecting to external AI services (Bolt-AI, ElevenLabs) via REST APIs; frontend built with React and Tailwind and deployed on Netlify."],
    [id |-> "KB_STYLE",
      text |-> "Voice style: casual, friendly, concise, honest. I prefer shipping imperfect versions quickly and iterating on feedback."],
    [id |-> "KB_SUPERPOWER",
      text |-> "Superpower: creative problem solving combining UI/UX thinking with engineering to quickly prototype useful products."],
    [id |-> "KB_GROW",
      text |-> "Growth areas: backend systems and scalable deployments, advanced ML/LLM tooling and RAG pipelines, and system design for production apps."],
    [id |-> "KB_WORK_PREF",
      text |-> "Work preference: short collaborative sessions and early mockups for feedback rather than long solitary focus stints."],
    [id |-> "KB_PERSONAL",
      text |-> "Interests: UI/UX design, full-stack development, small creative projects, crocheting, and making aesthetic social content."],
    [id |-> "KB_PERSONAL2",
      text |-> "Personality: creative, fast learner, always curious about AI and new tech; enjoys multiple hobbies outside of work."],
    [id |-> "KB_PUSH",
      text |-> "I push my boundaries by shipping imperfect versions quickly, time-boxing experiments, asking for feedback early, and iterating fast to learn."],
    [id |-> "KB_MISCONCEPTION",
      text |-> "Misconception: people think I prefer working alone because I focus deeply, but I do my best work in short collaborative sessions with quick feedback."],
    [id |-> "KB_TOOLING",
      text |-> "Tooling: comfortable with React, Tailwind, Electron; learning Node.js backend and experimenting with embeddings and RAG."],
    [id |-> "KB_RESUME_BULLET",
      text |-> "Resume bullet: Built a voice-first interview demo (React + Web Speech API) with retrieval-augmented HF LLM and guardrails for truthful answers."],
    [id |-> "KB_AVAIL",
      text |-> "Availability: full-time student but can commit to project-based freelance or remote work; open to internships abroad."],
    [id |-> "KB_FAQ",
      text |-> "FAQ: If asked about my superpower I say creative problem solving; if asked about growth I mention backend, LLMs, and system design."],
    [id |-> "KB_FAV_COLOR",
      text |-> "Favorite color: pastel lavender and soft sage."],
    [id |-> "KB_FAV_FOOD",
      text |-> "Favorite food: masala dosa with coconut chutney; also loves dark chocolate as a snack."],
    [id |-> "KB_PERSONALITY",
      text |-> "Personality type: collaborative, optimistic, ENFP-leaning; ships fast, iterates, and learns by doing."],
    [id |-> "KB_VALUES",
      text |-> "Values: honesty, quick feedback loops, and building useful things that help people."],
    [id |-> "KB_COMM",
      text |-> "Communication: prefers concise, friendly, first-person responses and short calls or Looms over long threads."],
    [id |-> "KB_TIME",
      text |-> "Location/timezone: Bengaluru (IST); can adjust for remote collaboration with prior notice."],
    [id |-> "KB_WEAKNESS",
      text |-> "Current focus areas: strengthening backend depth and system design; avoids overcommitting by time-boxing work."]>>


\* kb_vectors.json as the process finds it: missing, or holding JSON text.
\* JSON.parse of an array of snippets gives that array; the text "null"
\* gives null.
KbFiles ==
  { [k |-> "missing", v |-> <<>>],
    [k |-> "null", v |-> <<>>],
    [k |-> "array", v |-> <<>>],
    [k |-> "array",
     v |-> <<[id |-> "KB_PERSONAL2",
              text |-> "Personality: curious; enjoys multiple hobbies outside of work."],
             [id |-> "KB_GROW", text |-> ""],
             [id |-> "KB_FAV_FOOD", text |-> "Favorite food: masala dosa."]>>],
    [k |-> "array",
     v |-> <<[id |-> "KB_SUPERPOWER", text |-> "Superpower: creative problem solving."],
             [id |-> "KB_FAV_FOOD", text |-> "Favorite food: masala dosa."],
             [id |-> "KB_SUPERPOWER", text |-> "Strength: masala dosa and food."]>>] }

\* The value of KB_CACHE: null, or the array loaded.
NullKB == [k |-> "null", v |-> <<>>]
ArrayKB(a) == [k |-> "array", v |-> a]

\* let KB_CACHE = null is falsy; an array, even an empty one, is truthy.
KbTruthy(c) == c.k = "array"

\* Array.prototype.find by id: the index of the first snippet with that id,
\* 0 when there is none.
FindId(kb, id) ==
  LET hits == {i \in 1..Len(kb) : kb[i].id = id}
  IN  IF hits = {} THEN 0 ELSE CHOOSE i \in hits : \A j \in hits : i <= j

\* KB.find(k => k.id === id)?.text
TextOf(kb, id) ==
  IF FindId(kb, id) = 0 THEN Undef ELSE Str(kb[FindId(kb, id)].text)

\* Every text a snippet of the model holds, lowercased once.
LowerTable ==
  {<<s, ToLowerCase(s)>> : s \in
     UNION {{f.v[i].text : i \in 1..Len(f.v)} : f \in KbFiles}
     \cup {InlineKB[i].text : i \in 1..Len(InlineKB)}
     \cup {InlineKBFull[i].text : i \in 1..Len(InlineKBFull)}}

\* The pairs of a table whose first element is key.
Lookup(table, key) == {p \in table : p[1] = key}

Lowered(hit, s) == IF hit = {} THEN ToLowerCase(s) ELSE (CHOOSE p \in hit : TRUE)[2]

\* item.text.toLowerCase()
LowerText(s) == Lowered(Lookup(LowerTable, s), s)

(* ----------------------------------------------------------- buildContext *)

\* The sequence of the elements of the set of naturals S, ascending.
RECURSIVE Ascending(_)
Ascending(S) ==
  IF S = {} THEN <<>>
  ELSE LET m == CHOOSE i \in S : \A j \in S : i <= j
       IN  <<m>> \o Ascending(S \ {m})

\* [...new Set(seq)]: the first occurrence of every element, in order.
RECURSIVE Dedupe(_)
Dedupe(seq) ==
  IF seq = <<>> THEN <<>>
  ELSE LET rest == Dedupe(SubSeq(seq, 1, Len(seq) - 1))
           last == seq[Len(seq)]
       IN  IF \E i \in 1..Len(rest) : rest[i] = last THEN rest ELSE Append(rest, last)

\* Score without the test of the token's length.
ScoreAnyLength(tokens, text) ==
  Cardinality({tok \in tokens : Includes(LowerText(text), tok)})

\* The score of snippet text for the token set: the number of tokens longer
\* than MinTokLen that the lowercased text includes.
Score(tokens, text) ==
  Cardinality({tok \in tokens : Len(tok) > MinTokLen /\ Includes(LowerText(text), tok)})

QueryTokens(query) == Tokens(ToLowerCase(query))

\* An element of a selection is a KB object (ref "kb", the object at index
\* i of the array) or, in the second Gemini version, a scored copy of it
\* ({...item, score}: a fresh object, ref "copy").  A Set keeps objects
\* apart by identity, i.e. by ref and i.
Refs(ref, seq) == [n \in 1..Len(seq) |-> [ref |-> ref, i |-> seq[n]]]

\* Array.prototype.slice(0, n)
Take(seq, n) == SubSeq(seq, 1, Min(Len(seq), n))

\* buildContext of api/chat.js and of the first Gemini version.
SelectedSimple(query, kb) ==
  LET tokens == QueryTokens(query)
      hits == {i \in 1..Len(kb) : Score(tokens, kb[i].text) > 0}
      life == FindId(kb, "KB_LIFE")
      superpower == FindId(kb, "KB_SUPERPOWER")
      anchors == SelectSeq(<<life, superpower>>, LAMBDA i : i # 0)
  IN  Dedupe(Refs("kb", anchors) \o Refs("kb", Ascending(hits)))

\* SortScored with equal scores in reverse order.
RECURSIVE SortScoredTiesReversed(_, _, _)
SortScoredTiesReversed(S, tokens, kb) ==
  IF S = {} THEN <<>>
  ELSE LET m == CHOOSE i \in S : \A j \in S :
                  \/ Score(tokens, kb[i].text) > Score(tokens, kb[j].text)
                  \/ /\ Score(tokens, kb[i].text) = Score(tokens, kb[j].text)
                     /\ i >= j
       IN  <<m>> \o SortScoredTiesReversed(S \ {m}, tokens, kb)

\* scored.sort((a, b) => b.score - a.score) on the snippets of positive
\* score: descending score, equal scores in their order in kb (the sort is
\* stable).
RECURSIVE SortScored(_, _, _)
SortScored(S, tokens, kb) ==
  IF S = {} THEN <<>>
  ELSE LET m == CHOOSE i \in S : \A j \in S :
                  \/ Score(tokens, kb[i].text) > Score(tokens, kb[j].text)
                  \/ /\ Score(tokens, kb[i].text) = Score(tokens, kb[j].text)
                     /\ i <= j
       IN  <<m>> \o SortScored(S \ {m}, tokens, kb)

AnchorIds == {"KB_LIFE", "KB_SUPERPOWER", "KB_SKILLS", "KB_ARCHITECTURE"}

\* SelectedRich without the anchors.
SelectedRichScoredOnly(query, kb, maxChunks) ==
  LET tokens == QueryTokens(query)
      scored == SortScored({i \in 1..Len(kb) : Score(tokens, kb[i].text) > 0}, tokens, kb)
  IN  Dedupe(Refs("copy", Take(scored, maxChunks)))

\* buildContext of the second Gemini version.
SelectedRich(query, kb, maxChunks) ==
  LET tokens == QueryTokens(query)
      scored == SortScored({i \in 1..Len(kb) : Score(tokens, kb[i].text) > 0}, tokens, kb)
      anchors == Ascending({i \in 1..Len(kb) : kb[i].id \in AnchorIds})
  IN  Dedupe(Refs("kb", anchors) \o Refs("copy", Take(scored, maxChunks)))

\* maxChunks = 5
DefaultMaxChunks == 5

\* The selection buildContext makes of kb, with the variant's maxChunks.
SelectedOf(h, query, kb, maxChunks) ==
  IF h = "gemini2" THEN SelectedRich(query, kb, maxChunks) ELSE SelectedSimple(query, kb)

\* selected.map(k => k.id)
SourcesOf(sel, kb) == [n \in 1..Len(sel) |-> kb[sel[n].i].id]

\* selected.map(k => `[${k.id}] ${k.text}`).join("\n\n")
RECURSIVE ContextOf(_, _)
ContextOf(sel, kb) ==
  IF sel = <<>> THEN ""
  ELSE LET k == kb[sel[1].i]
           block == "[" \o k.id \o "] " \o k.text
       IN  IF Len(sel) = 1 THEN block
           ELSE block \o "\n\n" \o ContextOf(Tail(sel), kb)

\* buildContext(text, KB): {context, sources}.
Built(sel, kb) == [context |-> ContextOf(sel, kb), sources |-> SourcesOf(sel, kb)]

\* The handler calls buildContext(text, KB).
BuildContext(h, query, kb) == Built(SelectedOf(h, query, kb, DefaultMaxChunks), kb)

(* ------------------------------------------------------- canned responses *)

\* /(a|b|c)/.test(q) for literal alternatives: q includes one of them.
Matches(alts, q) == \E a \in alts : Includes(q, a)

NoCanned == [hit |-> FALSE, answer |-> "", source |-> ""]
Canned(answer, source) == [hit |-> TRUE, answer |-> answer, source |-> source]

\* a || b
OrElse(a, b) == IF Truthy(a) THEN a ELSE b

\* The canned table of the second Gemini version.
CannedTable ==
  << [re |-> {"what should we know", "life story", "who are you", "bio",
              "tell me about yourself"},
      id |-> "KB_LIFE"],
     [re |-> {"superpower", "super power", "strength", "best skill"},
      id |-> "KB_SUPERPOWER"],
     [re |-> {"how did you build", "tech stack", "how was this made", "architecture"},
      id |-> "KB_ARCHITECTURE"],
     [re |-> {"top 3", "areas to grow", "grow", "improve", "where do you want to grow"},
      id |-> "KB_GROW"],
     [re |-> {"push your boundaries", "push boundaries", "challenge yourself",
              "push your limits", "stretch yourself"},
      id |-> "KB_PUSH"],
     [re |-> {"misconception", "what do people get wrong", "coworker", "misread you"},
      id |-> "KB_MISCONCEPTION"],
     [re |-> {"interests", "hobbies", "outside of work", "what do you like"},
      id |-> "KB_PERSONAL"],
     [re |-> {"rainsafe", "flood"}, id |-> "KB_PROJECT_RAINSAFE"],
     [re |-> {"ovabloom", "pcos"}, id |-> "KB_PROJECT_OVABLOOM"] >>

\* The regular expression that goes with snippet id, as its alternatives.
Pattern(id) == CannedTable[CHOOSE n \in 1..Len(CannedTable) : CannedTable[n].id = id].re

\* CannedChain with the test of KB_GROW moved before that of KB_SUPERPOWER.
CannedChainGrowFirst(kb, q) ==
  LET lifeText == TextOf(kb, "KB_LIFE")
      superpowerText == TextOf(kb, "KB_SUPERPOWER")
      growText == TextOf(kb, "KB_GROW")
      pushText == TextOf(kb, "KB_PUSH")
      misText == TextOf(kb, "KB_MISCONCEPTION")
      interestsText == OrElse(TextOf(kb, "KB_PERSONAL"), TextOf(kb, "KB_PERSONAL2"))
  IN  IF Truthy(lifeText) /\ Matches(Pattern("KB_LIFE"), q) THEN Canned(lifeText.v, "KB_LIFE")
      ELSE IF Truthy(growText) /\ Matches(Pattern("KB_GROW"), q) THEN Canned(growText.v, "KB_GROW")
      ELSE IF Truthy(superpowerText) /\ Matches(Pattern("KB_SUPERPOWER"), q)
        THEN Canned(superpowerText.v, "KB_SUPERPOWER")
      ELSE IF Truthy(pushText) /\ Matches(Pattern("KB_PUSH"), q) THEN Canned(pushText.v, "KB_PUSH")
      ELSE IF Truthy(misText) /\ Matches(Pattern("KB_MISCONCEPTION"), q)
        THEN Canned(misText.v, "KB_MISCONCEPTION")
      ELSE IF Truthy(interestsText) /\ Matches(Pattern("KB_PERSONAL"), q)
        THEN Canned(interestsText.v, "KB_PERSONAL")
      ELSE NoCanned

\* The canned if-chain of api/chat.js and of the first Gemini version: each
\* test is guarded by the snippet's text being truthy.
CannedChain(kb, q) ==
  LET lifeText == TextOf(kb, "KB_LIFE")
      superpowerText == TextOf(kb, "KB_SUPERPOWER")
      growText == TextOf(kb, "KB_GROW")
      pushText == TextOf(kb, "KB_PUSH")
      misText == TextOf(kb, "KB_MISCONCEPTION")
      interestsText == OrElse(TextOf(kb, "KB_PERSONAL"), TextOf(kb, "KB_PERSONAL2"))
  IN  IF Truthy(lifeText) /\ Matches(Pattern("KB_LIFE"), q) THEN Canned(lifeText.v, "KB_LIFE")
      ELSE IF Truthy(superpowerText) /\ Matches(Pattern("KB_SUPERPOWER"), q)
        THEN Canned(superpowerText.v, "KB_SUPERPOWER")
      ELSE IF Truthy(growText) /\ Matches(Pattern("KB_GROW"), q) THEN Canned(growText.v, "KB_GROW")
      ELSE IF Truthy(pushText) /\ Matches(Pattern("KB_PUSH"), q) THEN Canned(pushText.v, "KB_PUSH")
      ELSE IF Truthy(misText) /\ Matches(Pattern("KB_MISCONCEPTION"), q)
        THEN Canned(misText.v, "KB_MISCONCEPTION")
      ELSE IF Truthy(interestsText) /\ Matches(Pattern("KB_PERSONAL"), q)
        THEN Canned(interestsText.v, "KB_PERSONAL")
      ELSE NoCanned

\* CannedLoop were the last matching entry to answer.
CannedLoopLastMatch(kb, q) ==
  LET ok == {n \in 1..Len(CannedTable) :
               Matches(CannedTable[n].re, q) /\ FindId(kb, CannedTable[n].id) # 0}
  IN  IF ok = {} THEN NoCanned
      ELSE LET n == CHOOSE i \in ok : \A j \in ok : i >= j
           IN  Canned(kb[FindId(kb, CannedTable[n].id)].text, CannedTable[n].id)

\* for (const c of canned): the first entry whose pattern matches and whose
\* snippet KB.find returns answers; an entry whose snippet is missing is
\* passed over.
CannedLoop(kb, q) ==
  LET ok == {n \in 1..Len(CannedTable) :
               Matches(CannedTable[n].re, q) /\ FindId(kb, CannedTable[n].id) # 0}
  IN  IF ok = {} THEN NoCanned
      ELSE LET n == CHOOSE i \in ok : \A j \in ok : i <= j
           IN  Canned(kb[FindId(kb, CannedTable[n].id)].text, CannedTable[n].id)

CannedAnswer(h, kb, text) ==
  IF h = "gemini2" THEN CannedLoop(kb, ToLowerCase(text))
  ELSE CannedChain(kb, ToLowerCase(text))

(* ------------------------------------------------------------------ JSON *)

\* An object is the sequence of its <<key, value>> pairs, in insertion order.
\* o.key: the value of the last pair with that key, undefined without one.
Get(o, key) ==
  LET hits == {i \in 1..Len(o.v) : o.v[i][1] = key}
  IN  IF o.t # "object" \/ hits = {} THEN Undef
      ELSE o.v[CHOOSE i \in hits : \A j \in hits : i >= j][2]

\* The escapes JSON.stringify writes inside a string.
JsonEscape(s) ==
  ReplaceAll(ReplaceAll(ReplaceAll(s, "\\", "\\\\"), "\"", "\\\""), "\n", "\\n")

\* Array.prototype.join on strings.
RECURSIVE JoinStrings(_, _)
JoinStrings(items, sep) ==
  IF items = <<>> THEN ""
  ELSE IF Len(items) = 1 THEN items[1]
  ELSE items[1] \o sep \o JoinStrings(Tail(items), sep)

\* JSON.stringify: undefined inside an array is written null.
RECURSIVE Stringify(_)
Stringify(jv) ==
  CASE jv.t = "string" -> "\"" \o JsonEscape(jv.v) \o "\""
    [] jv.t = "number" -> Digits(jv.v)
    [] jv.t = "array" ->
         "[" \o JoinStrings([n \in 1..Len(jv.v) |-> Stringify(jv.v[n])], ",") \o "]"
    [] jv.t = "object" ->
         "{" \o JoinStrings([n \in 1..Len(jv.v) |->
                               "\"" \o JsonEscape(jv.v[n][1]) \o "\":" \o
                               Stringify(jv.v[n][2])], ",") \o "}"
    [] OTHER -> "null"

\* String(x) of a string, number, null, undefined or object.
StringOfAtom(jv) ==
  CASE jv.t = "string" -> jv.v
    [] jv.t = "number" -> Digits(jv.v)
    [] jv.t = "undefined" -> "undefined"
    [] jv.t = "null" -> "null"
    [] OTHER -> "[object Object]"

\* String(x); an array gives its elements' strings joined by commas, null and
\* undefined elements giving the empty string.
JsString(jv) ==
  IF jv.t = "array"
  THEN JoinStrings([n \in 1..Len(jv.v) |->
                      IF jv.v[n].t \in {"undefined", "null"} THEN ""
                      ELSE StringOfAtom(jv.v[n])], ",")
  ELSE StringOfAtom(jv)

(* ------------------------------------------------- model response parser *)

FixedNoInfo == "I don't have verified information in my sources."

Answer(a, c, s) ==
  [status |-> 200, kind |-> "answer", answer |-> a, confidence |-> c, sources |-> s]
ErrorRes(st, e, d) == [status |-> st, kind |-> "error", error |-> e, details |-> d]
NoRes == [status |-> 0, kind |-> "none"]

\* The envelopes a model writes: every field a value of several types, or
\* left out (Undef).
LongText(n) == Repeat("a", n)

Envelope(a, c, s) ==
  Obj(SelectSeq(<< <<"answer", a>>, <<"confidence", c>>, <<"sources", s>> >>,
                LAMBDA p : p[2] # Undef))

Envelopes ==
  {Envelope(a, c, s) : <<a, c, s>> \in
     {Str("Hi, I am Nitya."), Str(""), Str(LongText(MaxAnswerLen)),
      Str(LongText(MaxAnswerLen + 1)), Num(42), Undef}
     \X {Str("high"), Str("medium"), Str("low"), Str("certain"), Undef}
     \X {Arr(<<>>), Arr(<<Str("KB_LIFE")>>), Arr(<<Str("KB_LIFE"), Str("KB_SKILLS")>>),
         Arr(<<Num(7)>>), Str("KB_LIFE"), Undef}}

\* JSON.parse, as the inverse of JSON.stringify on the objects of the model:
\* a text that is the JSON of none of them does not parse (every generated
\* text of the model whose brace-delimited part is valid JSON is the JSON of
\* one). The Hugging Face branch stringifies the payload element itself when
\* its generated_text is empty.
EnvelopeJson ==
  {<<Stringify(e), e>> : e \in
     Envelopes \cup {Obj(<< <<"generated_text", Str("")>> >>)}}

NotParsed == [ok |-> FALSE, value |-> Undef]

Parsed(hit) ==
  IF hit = {} THEN NotParsed ELSE [ok |-> TRUE, value |-> (CHOOSE p \in hit : TRUE)[2]]

JsonParse(s) == Parsed(Lookup(EnvelopeJson, s))

\* An envelope of the expected shape, and texts around it.
GoodEnvelope ==
  Envelope(Str("Hi, I am Nitya."), Str("high"), Arr(<<Str("KB_LIFE")>>))

\* The texts a model generates: the JSON of an envelope, bare or wrapped in
\* prose, white space or a code fence, and texts that hold no JSON object.
ModelTexts ==
  {Stringify(e) : e \in Envelopes}
  \cup { "Sure! " \o Stringify(GoodEnvelope) \o "\n",
         BT \o BT \o BT \o "json\n" \o Stringify(GoodEnvelope) \o "\n" \o BT \o BT \o BT,
         Stringify(GoodEnvelope) \o " and " \o Stringify(GoodEnvelope),
         "",
         "   \n",
         "  I am Nitya, nice to meet you. \n",
         "{not json}",
         "{\"answer\":\"Hi\"",
         "} backwards {",
         "{\"answer\": \"spaced\", \"sources\": [}",
         LongText(MaxAnswerLen + 1),
         " " \o LongText(MaxAnswerLen) \o " " }

\* (generated || '').match(/\{[\s\S]*\}/): from the first "{" to the last
\* "}" after it.
BraceMatch(gen) ==
  LET i == IndexOf(gen, "{")
      j == LastIndexOf(gen, "}")
  IN  IF i > 0 /\ j > i THEN [found |-> TRUE, text |-> SubSeq(gen, i, j)]
      ELSE [found |-> FALSE, text |-> ""]

\* The coercions of a parsed object into the response.
CoerceAnswer(parsed) ==
  LET pa == Get(parsed, "answer")
  IN  IF pa.t = "string" THEN pa.v ELSE JsString(OrElse(pa, Str("")))

\* CoerceSources without the Array.isArray test.
CoerceSourcesWrapped(parsed) ==
  LET ps == Get(parsed, "sources")
  IN  IF Truthy(ps) THEN <<Str(JsString(ps))>> ELSE <<>>

CoerceSources(parsed) ==
  LET ps == Get(parsed, "sources")
  IN  IF ps.t = "array" THEN ps.v
      ELSE IF Truthy(ps) THEN <<Str(JsString(ps))>> ELSE <<>>

\* CoerceConfidence were the sources not looked at.
CoerceConfidenceAsGiven(parsed, sources) ==
  LET given == Get(parsed, "confidence")
  IN  IF given.t = "string" /\ given.v \in {"high", "medium", "low"} THEN given.v ELSE "medium"

\* CoerceConfidence with "low" for every confidence that is not a level.
CoerceConfidenceInvalidLow(parsed, sources) ==
  LET given == Get(parsed, "confidence")
  IN  IF Len(sources) > 0 /\ given.t = "string" /\ given.v \in {"high", "medium", "low"}
      THEN given.v
      ELSE "low"

CoerceConfidence(parsed, sources) ==
  LET given == Get(parsed, "confidence")
  IN  IF Len(sources) > 0
      THEN IF given.t = "string" /\ given.v \in {"high", "medium", "low"} THEN given.v ELSE "medium"
      ELSE "low"

\* FallbackReply without the trim.
FallbackReplyUntrimmed(gen) ==
  LET fallbackText == Slice0(gen, MaxAnswerLen)
  IN  Answer(IF fallbackText # "" THEN fallbackText ELSE FixedNoInfo, "low", <<>>)

\* The raw-text fallback.
FallbackReply(gen) ==
  LET fallbackText == Slice0(Trim(gen), MaxAnswerLen)
  IN  Answer(IF fallbackText # "" THEN fallbackText ELSE FixedNoInfo, "low", <<>>)

\* try { JSON.parse(match[0]) ... } catch, when there is a match.
MatchParse(m) == IF m.found THEN JsonParse(m.text) ELSE NotParsed

\* The response made of the parsed object, or the raw-text fallback.
ParsedReply(p, gen) ==
  IF p.ok
  THEN Answer(Slice0(CoerceAnswer(p.value), MaxAnswerLen),
              CoerceConfidence(p.value, CoerceSources(p.value)),
              CoerceSources(p.value))
  ELSE FallbackReply(gen)

\* From the generated text to the response.
ParseReply(gen) == ParsedReply(MatchParse(BraceMatch(gen)), gen)

(* ------------------------------------------------------------- sanitizer *)

\* Clean without the removal of the closing brace.
CleanKeepingClose(text) ==
  Trim(ReplaceAll(ReplaceAll(ReplaceAll(ReplaceAll(ReplaceAll(ReplaceAll(
    text, BT \o BT \o BT \o "json", ""),
          BT \o BT \o BT, ""),
          "{", ""),
          "\"answer\":", ""),
          "Confidence: low", ""),
          "\\n", " "))

\* The text cleaning of the second speech handler: the ordered removals,
\* then trim.
Clean(text) ==
  Trim(ReplaceAll(ReplaceAll(ReplaceAll(ReplaceAll(ReplaceAll(ReplaceAll(ReplaceAll(
    text, BT \o BT \o BT \o "json", ""),
          BT \o BT \o BT, ""),
          "{", ""),
          "}", ""),
          "\"answer\":", ""),
          "Confidence: low", ""),
          "\\n", " "))

(* ----------------------------------------------------------- environment *)

EnvNames ==
  {"HF_API_TOKEN", "HF_MODEL", "GEMINI_API_KEY", "GOOGLE_API_KEY", "GEMINI_MODEL",
   "ELEVENLABS_API_KEY", "ELEVENLABS_VOICE_ID"}

\* The variables a deployment of handler module h sets or leaves unset.
EnvOf(h) ==
  CASE h = "hf" -> {"HF_API_TOKEN", "HF_MODEL"}
    [] h = "gemini1" -> {"GEMINI_API_KEY", "GOOGLE_API_KEY", "GEMINI_MODEL"}
    [] h = "gemini2" -> {"GEMINI_API_KEY", "GEMINI_MODEL"}
    [] OTHER -> {"ELEVENLABS_API_KEY", "ELEVENLABS_VOICE_ID"}

EnvValue(n) == "value-of-" \o n

Envs(h) ==
  {[n \in EnvNames |-> IF n \in S THEN EnvValue(n) ELSE ""] : S \in SUBSET EnvOf(h)}

\* a || b on strings
OrStr(a, b) == IF a # "" THEN a ELSE b


ModelKey(h, e) ==
  CASE h = "hf" -> e["HF_API_TOKEN"]
    [] h = "gemini1" -> OrStr(e["GEMINI_API_KEY"], e["GOOGLE_API_KEY"])
    [] OTHER -> e["GEMINI_API_KEY"]

\* ModelId without the default.
ModelIdNoDefault(h, e) == IF h = "hf" THEN e["HF_MODEL"] ELSE e["GEMINI_MODEL"]

ModelId(h, e) ==
  IF h = "hf" THEN e["HF_MODEL"] ELSE OrStr(e["GEMINI_MODEL"], "gemini-1.5-flash")

\* Configured were the model identifier checked in place of the key.
ConfiguredModelOnly(h, e) == ModelId(h, e) # ""

\* The configuration check before the model call.
Configured(h, e) ==
  IF h = "hf" THEN e["HF_API_TOKEN"] # "" /\ e["HF_MODEL"] # ""
  ELSE ModelKey(h, e) # ""

ConfigError(h) ==
  CASE h = "hf" -> "Server not configured: set HF_API_TOKEN and HF_MODEL in env vars."
    [] h = "gemini1" -> "Server not configured: set GEMINI_API_KEY (and optional GEMINI_MODEL)."
    [] OTHER -> "Server not configured: set GEMINI_API_KEY."

VoiceId(h, e) ==
  IF h = "tts1" THEN OrStr(e["ELEVENLABS_VOICE_ID"], "6BZyx2XekeeXOkTVn8un") ELSE "m8ysB8KEJV5BeYQnOtWN"

VoiceKeyError == "ELEVENLABS_API_KEY not set"

(* -------------------------------------------------------------- requests *)

Reqs == 1..MaxReqs

ChatTexts ==
  { "", "   ",
    "What should we know about your life story?",
    "What is your superpower and where do you want to grow?",
    "How do you push your boundaries?",
    "What are your hobbies?",
    "Tell me about the flood project",
    "Do you know React and design?",
    "asdkjasd",
    "is it ok" }

\* A request body: none, an object without text, or one whose text is a
\* number or a string.
Bodies(texts) ==
  {Undef, Obj(<<>>), Obj(<< <<"text", Num(5)>> >>)}
  \cup {Obj(<< <<"text", Str(t)>> >>) : t \in texts}

TtsTexts ==
  { "", "  \n",
    "Hi, I am Nitya.",
    BT \o BT \o BT \o "json\n{\"answer\": \"Hi\"}\n" \o BT \o BT \o BT,
    "{}" }


\* const { text } = req.body || {}
TextOfBody(body) == Get(OrElse(body, Obj(<<>>)), "text")

NoReq == [method |-> "", body |-> Undef]
NoTrace == [loadKB |-> FALSE, readFile |-> FALSE, context |-> FALSE, upstream |-> FALSE]
NoCall == [id |-> "", key |-> "", input |-> ""]

(* ------------------------------------------------------ upstream answers *)

\* What the upstream endpoint does with a call: no HTTP answer at all, a
\* non-success status with a body (Undef: the body cannot be read), a success
\* status whose payload cannot be read, or a success status with a payload.
NoReply == [k |-> "none", body |-> Undef, data |-> Undef]
NetworkError == [k |-> "network", body |-> Undef, data |-> Undef]
Failed(body) == [k |-> "failed", body |-> body, data |-> Undef]
BadPayload == [k |-> "badpayload", body |-> Undef, data |-> Undef]
Ok(data) == [k |-> "ok", body |-> Undef, data |-> data]

UpstreamErrorBody == "{\"error\":\"Model is overloaded\"}"

GoodText == Stringify(GoodEnvelope)

\* The generated texts the upstream answers carry: some of ModelTexts.
SampleTexts ==
  { GoodText,
    Stringify(Envelope(Str("Hi, I am Nitya."), Str("high"), Arr(<<>>))),
    Stringify(Envelope(Str("Hi, I am Nitya."), Str("certain"), Str("KB_LIFE"))),
    Stringify(Envelope(Num(42), Undef, Arr(<<Str("KB_LIFE"), Str("KB_SKILLS")>>))),
    Stringify(Envelope(Str(LongText(MaxAnswerLen + 1)), Str("medium"), Undef)),
    BT \o BT \o BT \o "json\n" \o Stringify(GoodEnvelope) \o "\n" \o BT \o BT \o BT,
    "",
    "  I am Nitya, nice to meet you. \n",
    "{not json}",
    LongText(MaxAnswerLen + 1) }

\* The Hugging Face router: the payload is JSON of several shapes.
HfUpstream ==
  {NetworkError, Failed(Str(UpstreamErrorBody)), Failed(Str("")), Failed(Undef), BadPayload}
  \cup {Ok(Arr(<<Obj(<< <<"generated_text", Str(g)>> >>)>>)) : g \in SampleTexts}
  \cup { Ok(Obj(<< <<"generated_text", Str(GoodText)>> >>)),
         Ok(Obj(<< <<"output", Str(GoodText)>> >>)),
         Ok(Arr(<<Obj(<< <<"generated_text", Str("")>>, <<"output", Str(GoodText)>> >>)>>)),
         Ok(Arr(<<GoodEnvelope>>)),
         Ok(Str(GoodText)),
         Ok(Arr(<<>>)),
         Ok([t |-> "null", v |-> 0]),
         Ok(Num(7)) }

\* The result of the Gemini SDK's generateContent: the texts of the parts of
\* the first candidate, and what response.text() gives.
GeminiResult(parts, text) == Obj(<< <<"parts", Arr(parts)>>, <<"text", text>> >>)

GeminiUpstream ==
  {NetworkError, Failed(Str(UpstreamErrorBody)), Failed(Undef)}
  \cup {Ok(GeminiResult(<<Str(g)>>, Str(g))) : g \in SampleTexts}
  \cup { Ok(GeminiResult(<<Str("Here you go:"), Str(GoodText)>>, Undef)),
         Ok(GeminiResult(<<Undef>>, Undef)),
         Ok(GeminiResult(<<>>, Str(GoodText))),
         Ok(GeminiResult(<<>>, Undef)),
         Ok(Undef) }

\* data[0].generated_text || data[0].output || JSON.stringify(data[0]), and
\* the branches for an object and for anything else.
Generation(o) ==
  OrElse(OrElse(Get(o, "generated_text"), Get(o, "output")), Str(Stringify(o))).v

HfGenerated(data) ==
  IF data.t = "array" /\ Len(data.v) > 0 /\ Truthy(data.v[1]) THEN Generation(data.v[1])
  ELSE IF data.t \in {"array", "object"} THEN Generation(data)
  ELSE IF data.t = "string" THEN data.v
  ELSE Stringify(data)

\* candidates[0].content.parts.map(p => p.text || '').join('\n'), or
\* response?.text?.() || ''.
GeminiGenerated(result) ==
  LET parts == Get(result, "parts")
  IN  IF parts.t = "array" /\ Len(parts.v) > 0
      THEN JoinStrings([n \in 1..Len(parts.v) |-> OrElse(parts.v[n], Str("")).v], "\n")
      ELSE OrElse(Get(result, "text"), Str("")).v

InternalError(details) == ErrorRes(500, "internal server error", Str(details))

\* String(err) of what the awaited call throws.
FetchFailed == "FetchError: request failed"
SdkError(up) ==
  IF up.k = "network" THEN "TypeError: fetch failed"
  ELSE "Error: [GoogleGenerativeAI Error]: Error fetching from generativelanguage: "
       \o OrElse(up.body, Str("")).v
TrimError == "TypeError: text.trim is not a function"

\* resp.text().catch(() => '<no body>')
BodyOrNone(up) == IF up.body.t = "string" THEN up.body.v ELSE "<no body>"

(* --------------------------------------------------------------- handler *)

\* What a stretch of the handler ends in: a response sent (pc "done"), or an
\* awaited call (pc "model", "tts"); context tells whether buildContext ran.
Sent(response, ctx) ==
  [pc |-> "done", res |-> response, context |-> ctx, call |-> NoCall]
Awaiting(where, ctx, c) ==
  [pc |-> where, res |-> NoRes, context |-> ctx, call |-> c]

Prompt(h, context, text) ==
  "<SYSTEM_PROMPT of " \o h \o ">" \o "\n\nCONTEXT:\n" \o context \o "\n\nQUESTION:\n" \o text
  \o "\n\nReply now with ONLY the JSON object requested."

\* AfterContext with the configuration checked before the sources.
AfterContextConfigFirst(h, e, text, built) ==
  IF ~Configured(h, e) THEN Sent(ErrorRes(500, ConfigError(h), Undef), TRUE)
  ELSE IF Len(built.sources) = 0 THEN Sent(Answer(FixedNoInfo, "low", <<>>), TRUE)
  ELSE Awaiting("model", TRUE,
                [id |-> ModelId(h, e), key |-> ModelKey(h, e),
                 input |-> Prompt(h, built.context, text)])

\* The chat handler after buildContext: the no-context fallback, the
\* configuration check, the model call.
AfterContext(h, e, text, built) ==
  IF Len(built.sources) = 0 THEN Sent(Answer(FixedNoInfo, "low", <<>>), TRUE)
  ELSE IF ~Configured(h, e) THEN Sent(ErrorRes(500, ConfigError(h), Undef), TRUE)
  ELSE Awaiting("model", TRUE,
                [id |-> ModelId(h, e), key |-> ModelKey(h, e),
                 input |-> Prompt(h, built.context, text)])

\* The chat handler after the canned tests: the canned response, or on to
\* buildContext.
AfterCanned(h, e, kb, text, canned) ==
  IF canned.hit THEN Sent(Answer(canned.answer, "high", <<Str(canned.source)>>), FALSE)
  ELSE AfterContext(h, e, text, BuildContext(h, text, kb))

\* The chat handler from the return of loadKB to the model call: canned
\* responses, buildContext, the no-context fallback, the configuration check.
AfterKB(h, e, cache, text) ==
  IF cache.k # "array" THEN Sent(InternalError("TypeError: Cannot read properties of null (reading 'find')"), FALSE)
  ELSE AfterCanned(h, e, cache.v, text, CannedAnswer(h, cache.v, text))

\* The value loadKB assigns to KB_CACHE once readFile has settled: the parsed
\* file, or the inline knowledge base when reading or parsing throws.
Loaded(h, file) ==
  CASE file.k = "missing" -> ArrayKB(IF h = "gemini2" THEN InlineKBFull ELSE InlineKB)
    [] file.k = "null" -> NullKB
    [] OTHER -> ArrayKB(file.v)

\* KbAfterRequest with the knowledge base sorted in place by buildContext.
KbAfterRequestSortedInPlace(h, cache) ==
  IF h = "gemini2" /\ cache.k = "array"
  THEN ArrayKB([n \in 1..Len(cache.v) |-> cache.v[Len(cache.v) + 1 - n]])
  ELSE cache

\* The knowledge base loadKB returned, once the handler has used it: KB.find
\* reads it, kb.map and kb.filter make new arrays, the scores are written on
\* copies of the snippets and it is the array of copies that is sorted.
KbAfterRequest(h, cache) == cache

\* ValidChatText without the trim.
ValidChatTextUntrimmed(text) ==
  Truthy(text) /\ text.t = "string"

\* The chat handler's input validation.
ValidChatText(text) ==
  Truthy(text) /\ text.t = "string" /\ Len(Trim(text.v)) # 0

Replied(response, gen) == [res |-> response, gen |-> gen]

\* The chat handler from the model client's answer to the response.
ChatReplyOf(h, up) ==
  IF up.k = "ok"
  THEN LET gen == IF h = "hf" THEN HfGenerated(up.data) ELSE GeminiGenerated(up.data)
       IN  Replied(ParseReply(gen), gen)
  ELSE IF h # "hf" THEN Replied(InternalError(SdkError(up)), "")
  ELSE IF up.k = "network" THEN Replied(InternalError(FetchFailed), "")
  ELSE IF up.k = "failed"
  THEN Replied(ErrorRes(502, "Model inference failed", Str(BodyOrNone(up))), "")
  ELSE Replied(InternalError("SyntaxError: Unexpected token in JSON"), "")

\* TtsStart were the text looked at before the method.
TtsStartTextFirst(h, e, method, body) ==
  LET text == TextOfBody(body)
  IN  IF ~Truthy(text) THEN Sent(ErrorRes(400, "No text provided", Undef), FALSE)
      ELSE IF method # "POST" THEN Sent(ErrorRes(405, "Method not allowed", Undef), FALSE)
      ELSE IF text.t # "string" THEN Sent(InternalError(TrimError), FALSE)
      ELSE IF Trim(text.v) = "" THEN Sent(ErrorRes(400, "No text provided", Undef), FALSE)
      ELSE IF e["ELEVENLABS_API_KEY"] = ""
      THEN Sent(ErrorRes(500, VoiceKeyError, Undef), FALSE)
      ELSE Awaiting("tts", FALSE,
                    [id |-> VoiceId(h, e), key |-> e["ELEVENLABS_API_KEY"],
                     input |-> IF h = "tts2" THEN Clean(text.v) ELSE text.v])

\* The speech handler up to the upstream call.
TtsStart(h, e, method, body) ==
  LET text == TextOfBody(body)
  IN  IF method # "POST" THEN Sent(ErrorRes(405, "Method not allowed", Undef), FALSE)
      ELSE IF ~Truthy(text) THEN Sent(ErrorRes(400, "No text provided", Undef), FALSE)
      ELSE IF text.t # "string" THEN Sent(InternalError(TrimError), FALSE)
      ELSE IF Trim(text.v) = "" THEN Sent(ErrorRes(400, "No text provided", Undef), FALSE)
      ELSE IF e["ELEVENLABS_API_KEY"] = ""
      THEN Sent(ErrorRes(500, VoiceKeyError, Undef), FALSE)
      ELSE Awaiting("tts", FALSE,
                    [id |-> VoiceId(h, e), key |-> e["ELEVENLABS_API_KEY"],
                     input |-> IF h = "tts2" THEN Clean(text.v) ELSE text.v])

\* TtsReplyOf were a rejected fetch to escape the handler: no response is
\* sent.
TtsReplyOfUncaught(up) ==
  CASE up.k = "network" -> NoRes
    [] up.k = "failed" -> ErrorRes(502, "TTS failed", Str(BodyOrNone(up)))
    [] up.k = "badpayload" -> InternalError(FetchFailed)
    [] OTHER -> [status |-> 200, kind |-> "audio", audio |-> up.data.v]

\* The speech handler from the upstream answer to the response.
TtsReplyOf(up) ==
  CASE up.k = "network" -> InternalError(FetchFailed)
    [] up.k = "failed" -> ErrorRes(502, "TTS failed", Str(BodyOrNone(up)))
    [] up.k = "badpayload" -> InternalError(FetchFailed)
    [] OTHER -> [status |-> 200, kind |-> "audio", audio |-> up.data.v]

(* --------------------------------------------------------------- actions *)

\* The value a table of <<arguments, value>> pairs gives for the arguments.
Memo(table, key) == (CHOOSE p \in table : p[1] = key)[2]

\* AfterKB on every handler module, environment, loaded knowledge base and
\* valid text of the model, computed once.
AfterKBTable ==
  UNION {{<<(<<h, e, Loaded(h, f), t>>), AfterKB(h, e, Loaded(h, f), t)>> :
            <<e, f, t>> \in Envs(h) \X KbFiles \X {x \in ChatTexts : ValidChatText(Str(x))}} :
         h \in ChatHandlers}

\* ChatReplyOf on every handler module and upstream answer, computed once.
ChatReplyTable ==
  UNION {{<<(<<h, u>>), ChatReplyOf(h, u)>> :
            u \in IF h = "hf" THEN HfUpstream ELSE GeminiUpstream} :
         h \in ChatHandlers}

\* The handling of r goes on as `out` says, having done `tr`.
Settle(r, out, tr) ==
  /\ pc' = [pc EXCEPT ![r] = out.pc]
  /\ res' = [res EXCEPT ![r] = out.res]
  /\ nres' = [nres EXCEPT ![r] = IF out.res.kind = "none" THEN @ ELSE @ + 1]
  /\ call' = [call EXCEPT ![r] = out.call]
  /\ trace' = [trace EXCEPT ![r] = [tr EXCEPT !.context = out.context,
                                                !.upstream = out.pc \in {"model", "tts"}]]

\* A chat request arrives and is handled up to its first awaited input or
\* output: the response, the read of kb_vectors.json, or the model call.
ChatRequest(r) ==
  /\ handler \in ChatHandlers
  /\ pc[r] = "idle"
  /\ \E method \in {"POST", "GET"}, body \in Bodies(ChatTexts) :
       /\ req' = [req EXCEPT ![r] = [method |-> method, body |-> body]]
       /\ IF method # "POST"
          THEN Settle(r, Sent(ErrorRes(405, "Method not allowed", Undef), FALSE), NoTrace)
          ELSE IF ~ValidChatText(TextOfBody(body))
          THEN Settle(r, Sent(ErrorRes(400, "No question text provided", Undef), FALSE),
                      NoTrace)
          ELSE IF KbTruthy(KB_CACHE)
          THEN Settle(r, Memo(AfterKBTable, <<handler, env, KB_CACHE, TextOfBody(body).v>>),
                      [NoTrace EXCEPT !.loadKB = TRUE])
          ELSE /\ pc' = [pc EXCEPT ![r] = "loadKB"]
               /\ trace' = [trace EXCEPT ![r] = [NoTrace EXCEPT !.loadKB = TRUE,
                                                                !.readFile = TRUE]]
               /\ UNCHANGED <<res, nres, call>>
       /\ KB_CACHE' = IF method = "POST" /\ ValidChatText(TextOfBody(body))
                      THEN KbAfterRequest(handler, KB_CACHE)
                      ELSE KB_CACHE
  /\ UNCHANGED <<handler, env, kbFile, reply, generated, aloneVars>>

\* fs.readFile settles: loadKB assigns KB_CACHE and returns it, and the
\* handler goes on to its response or to the model call.
KBRead(r) ==
  /\ pc[r] = "loadKB"
  /\ \E loaded \in {Loaded(handler, kbFile)} :
       \E out \in {Memo(AfterKBTable, <<handler, env, loaded, TextOfBody(req[r].body).v>>)} :
         /\ KB_CACHE' = KbAfterRequest(handler, loaded)
         /\ Settle(r, out, trace[r])
  /\ UNCHANGED <<handler, env, kbFile, req, reply, generated, aloneVars>>

\* The model client's call settles and the handler responds.
ChatReply(r) ==
  /\ pc[r] = "model"
  /\ \E up \in IF handler = "hf" THEN HfUpstream ELSE GeminiUpstream :
       /\ reply' = [reply EXCEPT ![r] = up]
       /\ \E out \in {Memo(ChatReplyTable, <<handler, up>>)} :
            /\ generated' = [generated EXCEPT ![r] = out.gen]
            /\ res' = [res EXCEPT ![r] = out.res]
  /\ pc' = [pc EXCEPT ![r] = "done"]
  /\ nres' = [nres EXCEPT ![r] = @ + 1]
  /\ UNCHANGED <<handler, env, kbFile, KB_CACHE, req, trace, call,
                 aloneVars>>

\* A speech request arrives and is handled up to the upstream call.
TtsRequest(r) ==
  /\ handler \in TtsHandlers
  /\ pc[r] = "idle"
  /\ \E method \in {"POST", "GET"}, body \in Bodies(TtsTexts) :
       /\ req' = [req EXCEPT ![r] = [method |-> method, body |-> body]]
       /\ Settle(r, TtsStart(handler, env, method, body), NoTrace)
  /\ UNCHANGED <<handler, env, kbFile, KB_CACHE, reply, generated,
                 aloneVars>>

\* The speech endpoint's answer arrives and the handler responds.
TtsReply(r) ==
  /\ pc[r] = "tts"
  /\ \E up \in {NetworkError, Failed(Str("{\"detail\":\"quota_exceeded\"}")), Failed(Undef),
                 BadPayload, Ok(Str("<audio/mpeg bytes>"))} :
       /\ reply' = [reply EXCEPT ![r] = up]
       /\ res' = [res EXCEPT ![r] = TtsReplyOf(up)]
  /\ pc' = [pc EXCEPT ![r] = "done"]
  /\ nres' = [nres EXCEPT ![r] = @ + 1]
  /\ UNCHANGED <<handler, env, kbFile, KB_CACHE, req, trace, generated, call,
                 aloneVars>>

\* The handler has returned; the slot takes the next request.
Finish(r) ==
  /\ pc[r] = "done"
  /\ pc' = [pc EXCEPT ![r] = "idle"]
  /\ req' = [req EXCEPT ![r] = NoReq]
  /\ res' = [res EXCEPT ![r] = NoRes]
  /\ nres' = [nres EXCEPT ![r] = 0]
  /\ trace' = [trace EXCEPT ![r] = NoTrace]
  /\ reply' = [reply EXCEPT ![r] = NoReply]
  /\ generated' = [generated EXCEPT ![r] = ""]
  /\ call' = [call EXCEPT ![r] = NoCall]
  /\ UNCHANGED <<handler, env, kbFile, KB_CACHE, aloneVars>>

\* buildContext is not run: no arguments, no result.
NoCtx ==
  [pc |-> "none", h |-> "", query |-> "", kb |-> <<>>, maxChunks |-> 0,
   selected |-> <<>>, context |-> "", sources |-> <<>>]

\* loadKB is not called.
NoLoad == [done |-> FALSE, calls |-> <<>>]

\* The page as App first renders it: useState([]), useState('ready'),
\* useState(''), and no call of sendToServer made.
NoUi == [chat |-> <<>>, status |-> "ready", errorMsg |-> "", calls |-> <<>>]

\* The functions run alone are not run.
AloneIdle ==
  /\ sanPc = 0
  /\ sanText = ""
  /\ sanOnce = ""
  /\ sanTwice = ""
  /\ modelText = ""
  /\ parseRes = NoRes
  /\ buildCtx = NoCtx
  /\ load = NoLoad
  /\ ui = NoUi

IdleSlots ==
  /\ pc = [r \in Reqs |-> "idle"]
  /\ req = [r \in Reqs |-> NoReq]
  /\ res = [r \in Reqs |-> NoRes]
  /\ nres = [r \in Reqs |-> 0]
  /\ trace = [r \in Reqs |-> NoTrace]
  /\ reply = [r \in Reqs |-> NoReply]
  /\ generated = [r \in Reqs |-> ""]
  /\ call = [r \in Reqs |-> NoCall]

\* A cold start of one handler module: let KB_CACHE = null.
Init ==
  /\ handler \in ChatHandlers \cup TtsHandlers
  /\ env \in Envs(handler)
  /\ kbFile \in IF handler \in ChatHandlers THEN KbFiles
                ELSE {[k |-> "missing", v |-> <<>>]}
  /\ KB_CACHE = NullKB
  /\ IdleSlots
  /\ AloneIdle

Next ==
  \E r \in Reqs :
    \/ ChatRequest(r)
    \/ KBRead(r)
    \/ ChatReply(r)
    \/ TtsRequest(r)
    \/ TtsReply(r)
    \/ Finish(r)

Spec == Init /\ [][Next]_vars

\* Every awaited call settles: fs.readFile, the model client, the speech
\* endpoint.
SpecSettling ==
  Spec /\ \A r \in Reqs : WF_vars(KBRead(r)) /\ WF_vars(ChatReply(r)) /\ WF_vars(TtsReply(r))

(* ------------------------------------------------ the sanitizer on its own *)

SanPieces ==
  { BT, BT \o BT \o BT, BT \o BT \o BT \o "json", "{", "}",
    "\"answer\":", "\"ans", "wer\":",
    "Confidence: low", "Confidence:", "low",
    "\\n", "\\", "n", " ", "Hi" }

\* The concatenations of at most n pieces.
RECURSIVE SanInputs(_)
SanInputs(n) ==
  IF n = 0 THEN {""}
  ELSE LET shorter == SanInputs(n - 1)
       IN  shorter \cup {a \o b : <<a, b>> \in shorter \X SanPieces}

\* No request is handled while a function is run alone.
ServerIdle ==
  /\ handler = "tts2"
  /\ env = [n \in EnvNames |-> EnvValue(n)]
  /\ kbFile = [k |-> "missing", v |-> <<>>]
  /\ KB_CACHE = NullKB
  /\ IdleSlots

InitSanitizer ==
  /\ ServerIdle
  /\ sanPc = 0
  /\ sanText \in SanInputs(MaxPieces)
  /\ sanOnce = ""
  /\ sanTwice = ""
  /\ modelText = ""
  /\ parseRes = NoRes
  /\ buildCtx = NoCtx
  /\ load = NoLoad
  /\ ui = NoUi

\* One pass of the sanitizer over the text, then a second over its output.
SanitizeOnce ==
  /\ sanPc = 0
  /\ sanOnce' = Clean(sanText)
  /\ sanPc' = 1
  /\ UNCHANGED <<serverVars, sanText, sanTwice, modelText, parseRes, buildCtx, load, ui>>

SanitizeTwice ==
  /\ sanPc = 1
  /\ sanTwice' = Clean(sanOnce)
  /\ sanPc' = 2
  /\ UNCHANGED <<serverVars, sanText, sanOnce, modelText, parseRes, buildCtx, load, ui>>

SpecSanitizer == InitSanitizer /\ [][SanitizeOnce \/ SanitizeTwice]_vars

(* --------------------------------------------------- the parser on its own *)

InitParser ==
  /\ ServerIdle
  /\ sanPc = 0
  /\ sanText = ""
  /\ sanOnce = ""
  /\ sanTwice = ""
  /\ modelText \in ModelTexts
  /\ parseRes = NoRes
  /\ buildCtx = NoCtx
  /\ load = NoLoad
  /\ ui = NoUi

\* The parser makes the response of the generated text.
Parse ==
  /\ parseRes = NoRes
  /\ parseRes' = ParseReply(modelText)
  /\ UNCHANGED <<serverVars, sanPc, sanText, sanOnce, sanTwice, modelText, buildCtx, load, ui>>

SpecParser == InitParser /\ [][Parse]_vars

(* ------------------------------------------------ buildContext on its own *)

\* The queries buildContext is run on.
ContextQueries ==
  { "What is your superpower and where do you want to grow?",
    "Do you know React and design?",
    "react React REACT",
    "Tell me about the flood project",
    "masala dosa food",
    "system design and backend systems",
    "And you?",
    "AI",
    "asdkjasd",
    "is it ok",
    "?!",
    "" }

InitContext ==
  /\ ServerIdle
  /\ sanPc = 0
  /\ sanText = ""
  /\ sanOnce = ""
  /\ sanTwice = ""
  /\ modelText = ""
  /\ parseRes = NoRes
  /\ load = NoLoad
  /\ ui = NoUi
  /\ \E h \in ChatHandlers, query \in ContextQueries,
        kb \in {f.v : f \in {g \in KbFiles : g.k = "array"}} \cup {InlineKB, InlineKBFull} :
       \E maxChunks \in IF h = "gemini2" THEN {2, DefaultMaxChunks} ELSE {0} :
         buildCtx = [NoCtx EXCEPT !.pc = "called", !.h = h, !.query = query, !.kb = kb,
                             !.maxChunks = maxChunks]

\* buildContext returns.
Build ==
  /\ buildCtx.pc = "called"
  /\ \E sel \in {SelectedOf(buildCtx.h, buildCtx.query, buildCtx.kb, buildCtx.maxChunks)} :
       buildCtx' = [buildCtx EXCEPT !.pc = "returned", !.selected = sel,
                                    !.context = ContextOf(sel, buildCtx.kb),
                                    !.sources = SourcesOf(sel, buildCtx.kb)]
  /\ UNCHANGED <<serverVars, sanPc, sanText, sanOnce, sanTwice, modelText, parseRes, load, ui>>

SpecContext == InitContext /\ [][Build]_vars

(* ------------------------------------------------------ loadKB on its own *)

\* A call of loadKB: where it stands, whether it read the file, whether it
\* was made after another call had returned, and what it returned.
LoadCallState(where, read, late, got) ==
  [pc |-> where, read |-> read, late |-> late, got |-> got]

InitLoad ==
  /\ handler \in ChatHandlers
  /\ env = [n \in EnvNames |-> EnvValue(n)]
  /\ kbFile \in KbFiles
  /\ KB_CACHE = NullKB
  /\ IdleSlots
  /\ sanPc = 0
  /\ sanText = ""
  /\ sanOnce = ""
  /\ sanTwice = ""
  /\ modelText = ""
  /\ parseRes = NoRes
  /\ buildCtx = NoCtx
  /\ ui = NoUi
  /\ load = [done |-> FALSE,
             calls |-> [l \in 1..MaxLoaders |-> LoadCallState("idle", FALSE, FALSE, NullKB)]]

\* loadKB is called: a truthy KB_CACHE is returned at once; otherwise the
\* call awaits fs.readFile.
LoadCall(l) ==
  /\ load.calls[l].pc \in {"idle", "returned"}
  /\ load' = IF KbTruthy(KB_CACHE)
             THEN [done |-> TRUE,
                   calls |-> [load.calls EXCEPT
                                ![l] = LoadCallState("returned", FALSE, load.done, KB_CACHE)]]
             ELSE [load EXCEPT
                     !.calls[l] = LoadCallState("reading", TRUE, load.done, NullKB)]
  /\ UNCHANGED <<serverVars, sanPc, sanText, sanOnce, sanTwice, modelText, parseRes, buildCtx, ui>>

\* fs.readFile settles: the call assigns KB_CACHE and returns it.
LoadSettle(l) ==
  /\ load.calls[l].pc = "reading"
  /\ KB_CACHE' = Loaded(handler, kbFile)
  /\ load' = [done |-> TRUE,
              calls |-> [load.calls EXCEPT
                           ![l] = LoadCallState("returned", TRUE, @.late,
                                                Loaded(handler, kbFile))]]
  /\ UNCHANGED <<handler, env, kbFile, pc, req, res, nres, trace, reply, generated, call,
                 sanPc, sanText, sanOnce, sanTwice, modelText, parseRes, buildCtx, ui>>

SpecLoad == InitLoad /\ [][\E l \in 1..MaxLoaders : LoadCall(l) \/ LoadSettle(l)]_vars

(* ------------------------------------------------------ the page (App.jsx) *)

LOADING_TEXT == "..."

\* append(who, text, meta): setChat(c => [...c, { who, text, ...meta }]).  Of
\* the meta fields the model keeps typing.
append(c, who, text, typing) ==
  Append(c, [who |-> who, text |-> text, typing |-> typing])

\* sendToServer in live mode, up to its await of fetch: the placeholder is
\* appended, status is set to thinking and the error banner is cleared.
sendToServer(u, text) ==
  [u EXCEPT !.chat = append(@, "bot", LOADING_TEXT, TRUE),
            !.status = "thinking",
            !.errorMsg = "",
            !.calls = Append(@, [pc |-> "fetch", text |-> text])]

\* append('you', v); sendToServer(v)
Ask(u, v) == sendToServer([u EXCEPT !.chat = append(@, "you", v, FALSE)], v)

\* The texts typed into the input, and the transcripts of the recogniser.
Typed == {"Who are you?", " What is your superpower? ", "  ", ""}

\* The questions of the quick prompts (of the five, two).
QuickPrompts ==
  [life |-> "What should we know about your life story in a few sentences?",
   push |-> "How do you push your boundaries and limits?"]

\* What fetch('/api/chat') settles with: a 200 with the JSON of an answer, a
\* status that is not ok, a body that is no JSON, a rejection.
ChatFetched ==
  { Ok(Envelope(Str("Hi, I am Nitya."), Str("high"), Arr(<<Str("KB_LIFE")>>))),
    Ok(Envelope(Str("..."), Str("low"), Arr(<<>>))),
    Ok(Envelope(Str(""), Str("low"), Arr(<<>>))),
    Failed(Str("{\"error\":\"internal server error\"}")),
    BadPayload,
    NetworkError }

\* The try block after the awaits: the last message is removed when it is a
\* bot message with the loading text, the reply (j.answer || j.reply ||
\* JSON.stringify(j)) is appended and status is set to ready.
Shown(u, j) ==
  LET textReply == OrElse(OrElse(Get(j, "answer"), Get(j, "reply")), Str(Stringify(j))).v
      last == Len(u.chat)
      copy == IF last > 0 /\ u.chat[last].who = "bot" /\ u.chat[last].text = LOADING_TEXT
              THEN SubSeq(u.chat, 1, last - 1)
              ELSE u.chat
  IN  [u EXCEPT !.chat = append(copy, "bot", textReply, FALSE),
                !.status = "ready",
                !.errorMsg = ""]

\* The catch block: status error, the banner, and the apology appended.
Caught(u) ==
  [u EXCEPT !.chat = append(@, "bot",
                            "Sorry, something went wrong while contacting the server.", FALSE),
            !.status = "error",
            !.errorMsg = "Server error. Check connection or try again."]

\* Enter in the input: a text that is not blank is asked, whatever status is.
KeyDown ==
  /\ Len(ui.calls) < MaxCalls
  /\ \E typed \in Typed :
       /\ Trim(typed) # ""
       /\ ui' = Ask(ui, Trim(typed))
  /\ UNCHANGED <<serverVars, sanPc, sanText, sanOnce, sanTwice, modelText, parseRes, buildCtx,
                 load>>

\* The Send button, disabled while status is thinking.
ClickSend ==
  /\ Len(ui.calls) < MaxCalls
  /\ ui.status # "thinking"
  /\ \E typed \in Typed :
       /\ Trim(typed) # ""
       /\ ui' = Ask(ui, Trim(typed))
  /\ UNCHANGED <<serverVars, sanPc, sanText, sanOnce, sanTwice, modelText, parseRes, buildCtx,
                 load>>

\* A quick prompt button.
quickAsk ==
  /\ Len(ui.calls) < MaxCalls
  /\ \E key \in DOMAIN QuickPrompts : ui' = Ask(ui, QuickPrompts[key])
  /\ UNCHANGED <<serverVars, sanPc, sanText, sanOnce, sanTwice, modelText, parseRes, buildCtx,
                 load>>

\* recog.onresult: the transcript is asked as it is.
OnResult ==
  /\ Len(ui.calls) < MaxCalls
  /\ \E transcript \in Typed : ui' = Ask(ui, transcript)
  /\ UNCHANGED <<serverVars, sanPc, sanText, sanOnce, sanTwice, modelText, parseRes, buildCtx,
                 load>>

\* The fetch of call n settles, and with it res.text() or res.json(): the
\* call goes through its try block, or through its catch block.
FetchSettles(n) ==
  /\ ui.calls[n].pc = "fetch"
  /\ \E fetched \in ChatFetched :
       ui' = [(IF fetched.k = "ok" THEN Shown(ui, fetched.data) ELSE Caught(ui))
                EXCEPT !.calls[n].pc = "returned"]
  /\ UNCHANGED <<serverVars, sanPc, sanText, sanOnce, sanTwice, modelText, parseRes, buildCtx,
                 load>>

\* The page starts as App first renders it, no request handled on the
\* server side of the model.
InitUI == ServerIdle /\ AloneIdle

SpecUI ==
  InitUI
  /\ [][\/ KeyDown \/ ClickSend \/ quickAsk \/ OnResult
        \/ \E n \in 1..Len(ui.calls) : FetchSettles(n)]_vars

(* ---------------------------------------------------------------- claims *)

IsChat == handler \in ChatHandlers
IsTts == handler \in TtsHandlers
Done(r) == pc[r] = "done"
Posted(r) == req[r].method = "POST"
ReqText(r) == TextOfBody(req[r].body)

\* The text of the request is a string that is not blank.
HasText(r) == ReqText(r).t = "string" /\ Trim(ReqText(r).v) # ""

Query(r) == ToLowerCase(ReqText(r).v)

\* A POST chat request with a text has been answered.
ChatAnswered(r) == IsChat /\ Done(r) /\ Posted(r) /\ HasText(r)

PatternTable(h) ==
  IF h = "gemini2" THEN CannedTable
  ELSE SelectSeq(CannedTable,
                 LAMBDA c : c.id \notin {"KB_ARCHITECTURE", "KB_PROJECT_RAINSAFE",
                                         "KB_PROJECT_OVABLOOM"})

\* The place in the table of the first pattern the query matches, 0 for none.
FirstMatch(h, q) ==
  LET ok == {n \in 1..Len(PatternTable(h)) : Matches(PatternTable(h)[n].re, q)}
  IN  IF ok = {} THEN 0 ELSE CHOOSE i \in ok : \A j \in ok : i <= j

\* The loaded knowledge base holds the snippet: in the if-chain versions
\* with a text that is not empty.
Held(h, cache, id) ==
  /\ cache.k = "array"
  /\ IF h = "gemini2" THEN FindId(cache.v, id) # 0 ELSE Truthy(TextOf(cache.v, id))

CannedResponse(cache, id) == Answer(TextOf(cache.v, id).v, "high", <<Str(id)>>)

\* The handling of r got to the model call: no canned answer, and a context
\* with at least one source.
AtModelStage(r) ==
  /\ KB_CACHE.k = "array"
  /\ ~CannedAnswer(handler, KB_CACHE.v, ReqText(r).v).hit
  /\ Len(BuildContext(handler, ReqText(r).v, KB_CACHE.v).sources) > 0

ConfigErrorRes == ErrorRes(500, ConfigError(handler), Undef)
VoiceKeyErrorRes == ErrorRes(500, VoiceKeyError, Undef)

C2_EmptySourcesLow ==
  \A r \in Reqs :
    (IsChat /\ res[r].kind = "answer" /\ res[r].status = 200 /\ Len(res[r].sources) = 0) =>
      res[r].confidence = "low"

\* The model wrote confidence "high" with no sources, and the handler answered.
C2_Witness ==
  \E r \in Reqs :
    /\ IsChat /\ Done(r) /\ reply[r].k = "ok"
    /\ generated[r] = Stringify(Envelope(Str("Hi, I am Nitya."), Str("high"), Arr(<<>>)))
    /\ res[r].kind = "answer" /\ Len(res[r].sources) = 0

\* An envelope of the expected shape: answer a string, confidence one of the
\* three levels, sources an array of ids.
WellFormed(e) ==
  /\ Get(e, "answer").t = "string"
  /\ Get(e, "confidence").t = "string" /\ Get(e, "confidence").v \in {"high", "medium", "low"}
  /\ Get(e, "sources").t = "array"
  /\ \A n \in 1..Len(Get(e, "sources").v) : Get(e, "sources").v[n].t = "string"

\* The well-formed envelope the generated text is the JSON of, if any.
WrittenEnvelopes == {p[2] : p \in {q \in EnvelopeJson : q[1] = modelText /\ WellFormed(q[2])}}

\* C3, as stated: the response to a well-formed envelope equals it field for
\* field, the answer cut to 2000 characters, also when sources is empty.
C3_Original ==
  \A e \in WrittenEnvelopes :
    parseRes # NoRes =>
      parseRes = Answer(Slice0(Get(e, "answer").v, 2000), Get(e, "confidence").v,
                        Get(e, "sources").v)

\* C3, amended: the response to a well-formed envelope equals it field for
\* field, except that the answer is cut to 2000 characters and that the
\* confidence is "low" when sources is empty.
C3_RoundTrip ==
  \A e \in WrittenEnvelopes :
    parseRes # NoRes =>
      parseRes = Answer(Slice0(Get(e, "answer").v, 2000),
                        IF Len(Get(e, "sources").v) = 0 THEN "low"
                        ELSE Get(e, "confidence").v,
                        Get(e, "sources").v)

\* A well-formed envelope with an answer of 2001 characters and two sources
\* has been parsed.
C3_Witness ==
  /\ parseRes # NoRes
  /\ \E e \in WrittenEnvelopes :
       Len(Get(e, "answer").v) = 2001 /\ Len(Get(e, "sources").v) = 2

\* The generated text holds no brace-delimited part that is JSON.
NoJsonObject(gen) ==
  LET i == IndexOf(gen, "{")
      j == LastIndexOf(gen, "}")
  IN  ~(i > 0 /\ j > i) \/ ~JsonParse(SubSeq(gen, i, j)).ok

\* The model answered request r with a text that holds no JSON object.
ModelWroteNoJson(r) ==
  IsChat /\ Done(r) /\ reply[r].k = "ok" /\ NoJsonObject(generated[r])

\* C4, as stated: a model text without a brace-delimited part that is valid
\* JSON is answered 200 with the raw text trimmed, confidence "low" and no
\* sources.
C4_Original ==
  \A r \in Reqs :
    ModelWroteNoJson(r) => res[r] = Answer(Trim(generated[r]), "low", <<>>)

\* C4, amended: such a text is answered 200 with confidence "low" and no
\* sources, the answer being the first 2000 characters of the trimmed text,
\* or the fixed no-information sentence when the trimmed text is empty.
C4_RawFallback ==
  \A r \in Reqs :
    ModelWroteNoJson(r) =>
      res[r] = Answer(IF Trim(generated[r]) = "" THEN FixedNoInfo
                      ELSE SubSeq(Trim(generated[r]), 1, Min(2000, Len(Trim(generated[r])))),
                      "low", <<>>)

\* A padded prose text has been answered.
C4_Witness ==
  \E r \in Reqs :
    /\ ModelWroteNoJson(r)
    /\ generated[r] = "  I am Nitya, nice to meet you. \n"
    /\ res[r].kind = "answer"

\* C5, as stated: every POST chat request with a text is answered 500 with
\* the configuration error when the model API key is absent, and every such
\* speech request likewise when the voice API key is absent.
C5_Original ==
  \A r \in Reqs :
    (Done(r) /\ Posted(r) /\ HasText(r)) =>
      /\ (IsChat /\ ModelKey(handler, env) = "") => res[r] = ConfigErrorRes
      /\ (IsTts /\ env["ELEVENLABS_API_KEY"] = "") => res[r] = VoiceKeyErrorRes

\* C5, amended: a POST chat request with a text that gets to the model call
\* (no canned answer, a context with sources) is answered 500 with the
\* configuration error when the model API key is absent, without a call; a
\* POST speech request with a text is answered 500 with the key error when
\* the voice API key is absent, without a call.
C5_KeyAbsent ==
  \A r \in Reqs :
    (Done(r) /\ Posted(r) /\ HasText(r)) =>
      /\ (IsChat /\ ModelKey(handler, env) = "" /\ AtModelStage(r)) =>
           res[r] = ConfigErrorRes /\ ~trace[r].upstream
      /\ (IsTts /\ env["ELEVENLABS_API_KEY"] = "") =>
           res[r] = VoiceKeyErrorRes /\ ~trace[r].upstream

\* A chat request at the model call without a key has been answered.
C5_Witness ==
  \E r \in Reqs :
    /\ ChatAnswered(r) /\ AtModelStage(r)
    /\ ModelKey(handler, env) = ""
    /\ res[r].status = 500

\* The environment variable that names the model of handler h.
ModelIdEnv(h, e) == IF h = "hf" THEN e["HF_MODEL"] ELSE e["GEMINI_MODEL"]

C7_Original ==
  \A r \in Reqs :
    (Done(r) /\ reply[r].k = "failed" /\ reply[r].body.t = "string") =>
      /\ res[r].status = 502
      /\ res[r].kind = "error"
      /\ res[r].details = reply[r].body

\* C8: a request whose method is not POST is answered 405 at once, whatever
\* its body and the configuration, with no load of the knowledge base, no
\* context and no upstream call.
C8_MethodNotAllowed ==
  \A r \in Reqs :
    (pc[r] # "idle" /\ ~Posted(r)) =>
      /\ Done(r)
      /\ res[r] = ErrorRes(405, "Method not allowed", Undef)
      /\ nres[r] = 1
      /\ trace[r] = NoTrace
      /\ call[r] = NoCall
      /\ reply[r] = NoReply

\* A GET request that carries a text was answered by a configured handler.
C8_Witness ==
  \E r \in Reqs :
    /\ Done(r) /\ req[r].method = "GET" /\ HasText(r)
    /\ (IsChat => ModelKey(handler, env) # "")
    /\ (IsTts => env["ELEVENLABS_API_KEY"] # "")
    /\ res[r].status = 405

\* C9: a POST chat request without a text, with a text that is not a string,
\* or with an empty or blank text is answered 400 at once, before the
\* knowledge base is loaded and with no model call.
C9_NoText ==
  \A r \in Reqs :
    (IsChat /\ pc[r] # "idle" /\ Posted(r) /\ ~HasText(r)) =>
      /\ Done(r)
      /\ res[r] = ErrorRes(400, "No question text provided", Undef)
      /\ nres[r] = 1
      /\ trace[r] = NoTrace
      /\ call[r] = NoCall
      /\ reply[r] = NoReply

\* A POST chat request with a blank text was answered while the knowledge
\* base was not loaded.
C9_Witness ==
  \E r \in Reqs :
    /\ IsChat /\ Done(r) /\ Posted(r)
    /\ ReqText(r).t = "string" /\ ReqText(r).v = "   "
    /\ KB_CACHE = NullKB
    /\ res[r].status = 400

\* The patterns the sanitizer removes or replaces.
Removed ==
  {BT \o BT \o BT \o "json", BT \o BT \o BT, "{", "}", "\"answer\":", "Confidence: low",
   "\\n"}

TokenTable == {<<t, QueryTokens(t)>> : t \in ChatTexts \cup ContextQueries}
TokensOf(query) == (CHOOSE p \in TokenTable : p[1] = query)[2]

\* No snippet of kb scores on the query.
ZeroScored(query, kb) ==
  \A i \in 1..Len(kb) : Score(TokensOf(query), kb[i].text) = 0

\* The anchor snippets kb holds, as the variant picks them: the first
\* KB_LIFE and the first KB_SUPERPOWER, or every snippet with an anchor id.
AnchorsHeld(h, kb) ==
  IF h = "gemini2" THEN Ascending({i \in 1..Len(kb) : kb[i].id \in AnchorIds})
  ELSE SelectSeq(<<FindId(kb, "KB_LIFE"), FindId(kb, "KB_SUPERPOWER")>>, LAMBDA i : i # 0)

\* The prompt whose context is made of the anchors alone.
AnchorPrompt(h, kb, text) ==
  Prompt(h, ContextOf(Refs("kb", AnchorsHeld(h, kb)), kb), text)

\* buildContext ran for r on a query without scored matches.
BuiltUnscored(r) ==
  IsChat /\ trace[r].context /\ ZeroScored(ReqText(r).v, KB_CACHE.v)

NoContextRes == Answer(FixedNoInfo, "low", <<>>)

\* C11, as stated: for every query without scored matches buildContext
\* returns the anchors, a result that is not empty, and the handler goes
\* past the no-context fallback (to the configuration check and the model
\* call).
C11_Original ==
  \A r \in Reqs :
    BuiltUnscored(r) =>
      \/ /\ trace[r].upstream
         /\ call[r].input = AnchorPrompt(handler, KB_CACHE.v, ReqText(r).v)
      \/ ~Configured(handler, env) /\ res[r] = ConfigErrorRes

\* C11, amended: for every query without scored matches buildContext returns
\* exactly the anchors the knowledge base holds; when it holds one at least,
\* the handler goes past the no-context fallback, and when it holds none the
\* result is empty and the handler answers with the no-context fallback.
C11_AnchorsHeld ==
  \A r \in Reqs :
    BuiltUnscored(r) =>
      IF AnchorsHeld(handler, KB_CACHE.v) = <<>>
      THEN Done(r) /\ res[r] = NoContextRes /\ ~trace[r].upstream /\ call[r] = NoCall
      ELSE IF Configured(handler, env)
      THEN /\ trace[r].upstream
           /\ call[r].input = AnchorPrompt(handler, KB_CACHE.v, ReqText(r).v)
      ELSE Done(r) /\ res[r] = ConfigErrorRes /\ ~trace[r].upstream

\* A query without scored matches went to the model with the anchors.
C11_Witness ==
  \E r \in Reqs :
    /\ BuiltUnscored(r)
    /\ AnchorsHeld(handler, KB_CACHE.v) # <<>>
    /\ trace[r].upstream
    /\ Done(r) /\ reply[r].k = "ok"


\* buildContext has returned.
Returned == buildCtx.pc = "returned"

\* The result of buildContext is the anchors the knowledge base holds, and
\* nothing else.
AnchorsOnly ==
  /\ buildCtx.selected = Refs("kb", AnchorsHeld(buildCtx.h, buildCtx.kb))
  /\ buildCtx.sources =
       [n \in 1..Len(AnchorsHeld(buildCtx.h, buildCtx.kb)) |->
          buildCtx.kb[AnchorsHeld(buildCtx.h, buildCtx.kb)[n]].id]

\* C12, as stated: when every token of the query has length at most 3, no
\* snippet scores and the result of buildContext holds the anchors only.
C12_Original ==
  (Returned /\ \A tok \in TokensOf(buildCtx.query) : Len(tok) <= 3) =>
    ZeroScored(buildCtx.query, buildCtx.kb) /\ AnchorsOnly

\* C12, amended: when every token of the query has length at most 2, no
\* snippet scores and the result of buildContext holds the anchors only.
C12_ShortTokens ==
  (Returned /\ \A tok \in TokensOf(buildCtx.query) : Len(tok) <= 2) =>
    ZeroScored(buildCtx.query, buildCtx.kb) /\ AnchorsOnly

\* A query of two-letter tokens, one of them a substring of a snippet, got
\* the anchors.
C12_Witness ==
  /\ Returned
  /\ \A tok \in TokensOf(buildCtx.query) : Len(tok) <= 2
  /\ \E tok \in TokensOf(buildCtx.query), i \in 1..Len(buildCtx.kb) :
       Len(tok) = 2 /\ Includes(LowerText(buildCtx.kb[i].text), tok)
  /\ buildCtx.sources # <<>>


\* An exception was thrown while r was handled: KB.find on a null knowledge
\* base, text.trim on a text that is no string, a call that rejects, a
\* payload that cannot be read.
Threw(r) ==
  \/ IsChat /\ trace[r].loadKB /\ pc[r] # "loadKB" /\ KB_CACHE.k = "null"
  \/ IsTts /\ Posted(r) /\ Truthy(ReqText(r)) /\ ReqText(r).t # "string"
  \/ reply[r].k \in {"network", "badpayload"}
  \/ handler \in {"gemini1", "gemini2"} /\ reply[r].k = "failed"

\* C13: a request being handled has no response yet while the handler awaits
\* a call, and exactly one once the handler has returned; an exception thrown
\* in the handler gives a 500 carrying the stringified error; and, every
\* awaited call settling, every request gets its response.
C13_OneResponse ==
  /\ [](\A r \in Reqs :
         /\ nres[r] = IF Done(r) THEN 1 ELSE 0
         /\ Done(r) <=> res[r] # NoRes
         /\ (Done(r) /\ Threw(r)) =>
              /\ res[r].status = 500 /\ res[r].error = "internal server error"
              /\ res[r].details.t = "string" /\ res[r].details.v # "")
  /\ \A r \in Reqs : (pc[r] # "idle") ~> Done(r)

\* A request whose model call rejected got its one response.
C13_Witness ==
  \E r \in Reqs :
    Done(r) /\ reply[r].k = "network" /\ nres[r] = 1 /\ res[r].status = 500


\* The ids the variant prepends as anchors.
AnchorIdsOf(h) == IF h = "gemini2" THEN AnchorIds ELSE {"KB_LIFE", "KB_SUPERPOWER"}

\* No two snippets of kb carry the same id.
DistinctIds(kb) == \A i, j \in 1..Len(kb) : kb[i].id = kb[j].id => i = j

\* C14, as stated, for a knowledge base of distinct ids: the sources
\* buildContext returns never hold the same snippet id twice, and the anchors
\* precede every scored hit that is no anchor.
C14_Original ==
  (Returned /\ DistinctIds(buildCtx.kb)) =>
    /\ \A m, n \in 1..Len(buildCtx.sources) :
         m # n => buildCtx.sources[m] # buildCtx.sources[n]
    /\ \A m, n \in 1..Len(buildCtx.sources) :
         (m < n /\ buildCtx.sources[n] \in AnchorIdsOf(buildCtx.h)) =>
           buildCtx.sources[m] \in AnchorIdsOf(buildCtx.h)


\* The scored part of the result of the richer buildContext: the indices in
\* kb of the scored copies, in the order of the result.
ScoredPart ==
  [n \in 1..Len(SelectSeq(buildCtx.selected, LAMBDA e : e.ref = "copy")) |->
     SelectSeq(buildCtx.selected, LAMBDA e : e.ref = "copy")[n].i]

\* The score of snippet i of the knowledge base on the query.
ScoreAt(i) == Score(TokensOf(buildCtx.query), buildCtx.kb[i].text)

\* The snippets of positive score.
Positive == {i \in 1..Len(buildCtx.kb) : ScoreAt(i) > 0}

\* C15: in the richer variant the scored part of the result holds at most
\* maxChunks snippets (all the snippets of positive score when they are
\* fewer), each of positive score, in non-increasing order of score; no
\* snippet left out scores higher than one included; snippets of equal score
\* stand in their knowledge-base order, and one left out for an equal score
\* stands later in the knowledge base.
C15_TopScored ==
  (Returned /\ buildCtx.h = "gemini2") =>
    /\ Len(ScoredPart) = Min(buildCtx.maxChunks, Cardinality(Positive))
    /\ \A n \in 1..Len(ScoredPart) : ScoredPart[n] \in Positive
    /\ \A m, n \in 1..Len(ScoredPart) :
         m < n =>
           /\ ScoreAt(ScoredPart[m]) >= ScoreAt(ScoredPart[n])
           /\ ScoreAt(ScoredPart[m]) = ScoreAt(ScoredPart[n]) => ScoredPart[m] < ScoredPart[n]
    /\ \A i \in 1..Len(buildCtx.kb), n \in 1..Len(ScoredPart) :
         (\A m \in 1..Len(ScoredPart) : ScoredPart[m] # i) =>
           /\ ScoreAt(i) <= ScoreAt(ScoredPart[n])
           /\ ScoreAt(i) = ScoreAt(ScoredPart[n]) => ScoredPart[n] < i

\* The richer buildContext cut the scored snippets at maxChunks, leaving out
\* a snippet of positive score, with two of equal score and two of different
\* scores among those it kept.
C15_Witness ==
  /\ Returned /\ buildCtx.h = "gemini2"
  /\ Len(ScoredPart) = buildCtx.maxChunks
  /\ Cardinality(Positive) > buildCtx.maxChunks
  /\ \E m, n \in 1..Len(ScoredPart) :
       m # n /\ ScoreAt(ScoredPart[m]) = ScoreAt(ScoredPart[n])
  /\ \E m, n \in 1..Len(ScoredPart) : ScoreAt(ScoredPart[m]) > ScoreAt(ScoredPart[n])


\* The calls of loadKB that have returned.
ReturnedLoads == {l \in 1..MaxLoaders : load.calls[l].pc = "returned"}

\* C16, as stated: a call of loadKB made after another call has completed
\* returns the cache without reading the file, and the calls that have
\* returned, concurrent ones included, all got the same contents, which the
\* cache holds.
C16_Original ==
  /\ \A l \in 1..MaxLoaders :
       (load.calls[l].pc # "idle" /\ load.calls[l].late) => ~load.calls[l].read
  /\ \A l \in ReturnedLoads : load.calls[l].got = KB_CACHE


\* The contents loadKB finds: the snippets of kb_vectors.json, or the inline
\* knowledge base of the handler when the file is missing.
ContentsLoaded ==
  IF kbFile.k = "array" THEN kbFile.v
  ELSE IF handler = "gemini2" THEN InlineKBFull ELSE InlineKB

AnsweredCanned(r) ==
  ChatAnswered(r) /\ trace[r].loadKB /\ ~trace[r].context /\ res[r].kind = "answer"

\* The text the canned branch of snippet id answers with: the snippet's text,
\* in the if-chain versions that of KB_PERSONAL2 for a KB_PERSONAL without
\* text; Undef when the branch is passed over.
CannedText(h, kb, id) ==
  IF h = "gemini2" THEN TextOf(kb, id)
  ELSE IF id = "KB_PERSONAL" THEN OrElse(TextOf(kb, "KB_PERSONAL"), TextOf(kb, "KB_PERSONAL2"))
  ELSE IF Truthy(TextOf(kb, id)) THEN TextOf(kb, id)
  ELSE Undef

\* The places in the table of the patterns the query matches and whose
\* branch is not passed over.
MatchesHeld(h, kb, q) ==
  {n \in 1..Len(PatternTable(h)) :
     /\ Matches(PatternTable(h)[n].re, q)
     /\ IF h = "gemini2" THEN CannedText(h, kb, PatternTable(h)[n].id) # Undef
        ELSE Truthy(CannedText(h, kb, PatternTable(h)[n].id))}

\* C18, as stated: a canned answer carries the snippet of the earliest
\* pattern of the list that the lowercased query matches.
C18_Original ==
  \A r \in Reqs :
    AnsweredCanned(r) =>
      /\ FirstMatch(handler, Query(r)) # 0
      /\ res[r].sources = <<Str(PatternTable(handler)[FirstMatch(handler, Query(r))].id)>>

\* C18, amended: the patterns are tested in list order and the earliest
\* matching pattern whose snippet the knowledge base holds decides: the
\* answer carries that snippet, whatever later patterns match; matching
\* patterns whose snippet is missing are passed over, and without a held
\* match the request goes on to buildContext.
C18_FirstHeld ==
  \A r \in Reqs :
    (ChatAnswered(r) /\ KbTruthy(KB_CACHE)) =>
      LET ok == MatchesHeld(handler, KB_CACHE.v, Query(r))
      IN  IF ok = {} THEN trace[r].context
          ELSE LET id == PatternTable(handler)[CHOOSE i \in ok : \A j \in ok : i <= j].id
               IN  /\ res[r] = Answer(CannedText(handler, KB_CACHE.v, id).v, "high", <<Str(id)>>)
                   /\ ~trace[r].context

\* A query matching two patterns was answered with the snippet of the later
\* one, the snippet of the earlier one being missing.
C18_Witness ==
  \E r \in Reqs :
    /\ AnsweredCanned(r)
    /\ Cardinality({n \in 1..Len(PatternTable(handler)) :
                      Matches(PatternTable(handler)[n].re, Query(r))}) > 1
    /\ res[r].sources # <<Str(PatternTable(handler)[FirstMatch(handler, Query(r))].id)>>


\* The object the brace-delimited part of the generated text parses to, if
\* it parses.
ParsedObjects ==
  {p[2] : p \in IF BraceMatch(modelText).found
                THEN Lookup(EnvelopeJson, BraceMatch(modelText).text)
                ELSE {}}

\* The confidence the model wrote is one of the three levels.
WroteLevel(e) ==
  Get(e, "confidence").t = "string" /\ Get(e, "confidence").v \in {"high", "medium", "low"}

\* C19: the response to a model output that parses has a confidence among
\* high, medium and low; for a confidence of the model outside the three
\* levels it is "medium" when the sources of the response are not empty and
\* "low" when they are.
C19_ConfidenceLevel ==
  \A e \in ParsedObjects :
    parseRes # NoRes =>
      /\ parseRes.kind = "answer"
      /\ parseRes.confidence \in {"high", "medium", "low"}
      /\ ~WroteLevel(e) =>
           parseRes.confidence = IF Len(parseRes.sources) > 0 THEN "medium" ELSE "low"

\* An envelope with a confidence that is no level and with a source has been
\* parsed.
C19_Witness ==
  /\ parseRes # NoRes
  /\ \E e \in ParsedObjects :
       /\ Get(e, "confidence") = Str("certain")
       /\ Get(e, "sources") = Arr(<<Str("KB_LIFE")>>)
  /\ parseRes.confidence = "medium"

\* C20, as stated: the response to a model output that parses has a string
\* for answer and an array of strings for sources, the empty array when the
\* model wrote no sources.
C20_Original ==
  \A e \in ParsedObjects :
    parseRes # NoRes =>
      /\ parseRes.kind = "answer"
      /\ parseRes.answer \in STRING
      /\ \A n \in 1..Len(parseRes.sources) : parseRes.sources[n].t = "string"
      /\ Get(e, "sources") = Undef => parseRes.sources = <<>>


\* The answer the handler makes of the generated text before it cuts it: the
\* answer of the parsed object as a string, or the trimmed text, or the fixed
\* sentence for a text that is blank.
Untruncated ==
  IF ParsedObjects # {}
  THEN LET pa == Get(CHOOSE e \in ParsedObjects : TRUE, "answer")
       IN  IF pa.t = "string" THEN pa.v
           ELSE IF Truthy(pa) THEN JsString(pa) ELSE ""
  ELSE IF Trim(modelText) = "" THEN FixedNoInfo ELSE Trim(modelText)

\* C21: the answer made of a model output, parsed or not, has at most 2000
\* characters, and is the untruncated answer when that has at most 2000.
C21_AnswerCut ==
  parseRes # NoRes =>
    /\ parseRes.kind = "answer"
    /\ Len(parseRes.answer) <= 2000
    /\ Len(Untruncated) <= 2000 => parseRes.answer = Untruncated
    /\ Len(Untruncated) > 2000 => parseRes.answer = SubSeq(Untruncated, 1, 2000)

\* A text of 2001 characters without a JSON object has been answered with
\* its first 2000.
C21_Witness ==
  /\ parseRes # NoRes
  /\ ParsedObjects = {}
  /\ Len(Untruncated) = 2001
  /\ Len(parseRes.answer) = 2000


\* No canned pattern applies to the text of r, and the knowledge base holds
\* neither an anchor nor a snippet that scores on it.
NothingToSay(r) ==
  /\ ChatAnswered(r) /\ KbTruthy(KB_CACHE)
  /\ MatchesHeld(handler, KB_CACHE.v, Query(r)) = {}
  /\ AnchorsHeld(handler, KB_CACHE.v) = <<>>
  /\ ZeroScored(ReqText(r).v, KB_CACHE.v)

\* C22: when no canned pattern applies and buildContext returns nothing, the
\* response is 200 with the fixed sentence, confidence "low" and no sources,
\* whatever the configuration, and the model client is not called.
C22_NoContext ==
  \A r \in Reqs :
    NothingToSay(r) =>
      /\ res[r] = Answer("I don't have verified information in my sources.", "low", <<>>)
      /\ trace[r].context
      /\ ~trace[r].upstream
      /\ call[r] = NoCall
      /\ reply[r].k = "none"

\* A request with nothing to say about it got the fixed answer from a
\* handler without its API key.
C22_Witness ==
  \E r \in Reqs :
    /\ NothingToSay(r)
    /\ ~Configured(handler, env)
    /\ res[r].kind = "answer" /\ res[r].status = 200


\* The loading placeholders in the chat, and the calls of sendToServer that
\* await their response.
Placeholders == {i \in 1..Len(ui.chat) : ui.chat[i].typing}
InFlight == {n \in 1..Len(ui.calls) : ui.calls[n].pc = "fetch"}

\* C23, as stated: every call of sendToServer puts one loading placeholder
\* into the chat and the placeholder is gone once the call has finished, so
\* that the chat holds as many placeholders as calls are in flight, and none
\* when none is.
C23_Original == Cardinality(Placeholders) = Cardinality(InFlight)

\* C24, as stated: status is thinking whenever a call of sendToServer is in
\* flight, and ready or error only when none is.
C24_Original == (InFlight # {}) <=> (ui.status = "thinking")

====
